---- MODULE Spec2Model ----
(***************************************************************************)
(* Model of the vision_model_flops scripts:                                *)
(*   src/src/main.py            batch analysis, fvcore (trace) back-end    *)
(*   src/src/model_analyzer.py  batch analysis, thop (hook) back-end       *)
(*   src/rec/plot_model_analysis.py  renderer of the JSON report           *)
(* One run of an analysis script and one run of the renderer share the     *)
(* report file.  The external libraries (timm, torch, fvcore, thop) are    *)
(* the environment: each call's outcome is chosen nondeterministically.    *)
(***************************************************************************)
EXTENDS Integers, Sequences, FiniteSets, TLC

VARIABLES
    script,        \* which analysis script runs: "main" or "model_analyzer"
    config,        \* the parsed YAML configuration (a mapping)
    pc,            \* position of the analysis script's main()
    model_names,   \* main(): model_names
    results,       \* main(): results
    outcomes,      \* what the external libraries did on each analyze_model call
    output_file,   \* the report file on disk: [exists, doc]
    writes,        \* number of times the report file was opened for writing
    rpc,           \* position of the renderer's main()
    rerror,        \* the exception that ended the renderer, "" if none
    data,          \* load_model_analysis(): data
    models,        \* renderer main(): models
    params_plot,   \* renderer main(): params_plot (<<>> before it is created)
    gflops_plot,   \* renderer main(): gflops_plot (<<>> before it is created)
    table_image,   \* renderer main(): table_image (<<>> before it is created)
    images         \* names of the image files written to the working directory

vars == <<script, config, pc, model_names, results, outcomes, output_file, writes,
          rpc, rerror, data, models, params_plot, gflops_plot, table_image, images>>

avars == <<script, config, pc, model_names, results, outcomes, output_file, writes>>
rvars == <<rpc, rerror, data, models, params_plot, gflops_plot, table_image, images>>

----------------------------------------------------------------------------
(* Bounds of the model *)

MaxModels == 2     \* longest configured models list
MaxParams == 0     \* largest small parameter count a model reports
MaxOps == 1        \* largest small operation count a profiler reports

(* Program constants *)

Billion == 1000000000
Million == 1000000

ModelIds == {"a", "b"}
Scripts == {"main", "model_analyzer"}
Stages == {"create_model", "rand", "params", "profile"}

RECURSIVE SeqsUpTo(_, _)
SeqsUpTo(S, n) ==
    IF n = 0 THEN {<<>>}
    ELSE LET shorter == SeqsUpTo(S, n - 1)
         IN  shorter \cup {Append(s, x) : s \in {t \in shorter : Len(t) = n - 1}, x \in S}

----------------------------------------------------------------------------
(* Python values *)

\* a float obtained by dividing an integer by a power of ten
Float(n, d) == [num |-> n, den |-> d]

\* the outcome of a call: a returned value or a propagating exception
Return(v) == [kind |-> "return", value |-> v]
Raise(e) == [kind |-> "raise", value |-> e]

\* dict.get(key, default)
dict_get(d, key, default) == IF key \in DOMAIN d THEN d[key] ELSE default

\* a JSON document is an array of objects, an object a set of (key, value) members
json_dump(records) ==
    [k \in 1..Len(records) |-> {<<f, records[k][f]>> : f \in DOMAIN records[k]}]

json_load(doc) ==
    [k \in 1..Len(doc) |->
        [f \in {m[1] : m \in doc[k]} |-> (CHOOSE m \in doc[k] : m[1] = f)[2]]]

----------------------------------------------------------------------------
(* The external libraries, as seen by one analyze_model call *)

\* the operation count the profiler reports: FLOPs from fvcore, MACs from thop
ReportedOps(s) == (0..MaxOps) \cup {IF s = "main" THEN 2 * Billion ELSE Billion}

\* the parameter count the model reports
ReportedParams == (0..MaxParams) \cup {Million}

\* fails: the step that raised ("none": none); exc: the class of what it raised
Outcomes(s) ==
    {[fails |-> "none", exc |-> "none", params |-> p, ops |-> o] :
        p \in ReportedParams, o \in ReportedOps(s)}
    \cup {[fails |-> st, exc |-> e, params |-> 0, ops |-> 0] :
        st \in Stages, e \in {"Exception", "KeyboardInterrupt"}}

\* str(e)
ErrorMessage(o) == o.fails

----------------------------------------------------------------------------
(* Variants of analyze_model with a plausible slip, used to test the properties *)

\* the try block starts after timm.create_model: its failure propagates
main_analyze_model_latetry(model_name, o) ==
    IF o.fails # "none"
    THEN IF o.exc = "Exception" /\ o.fails # "create_model"
         THEN Return([model_name |-> model_name, error |-> ErrorMessage(o)])
         ELSE Raise(o.exc)
    ELSE Return([model_name |-> model_name,
                 total_params |-> o.params,
                 total_flops |-> o.ops,
                 total_macs |-> o.ops \div 2,
                 flops_by_operator |-> [conv |-> o.ops],
                 flops_by_module |-> [root |-> o.ops]])

\* MACs rounded up instead of down
main_analyze_model_roundup(model_name, o) ==
    IF o.fails # "none"
    THEN IF o.exc = "Exception"
         THEN Return([model_name |-> model_name, error |-> ErrorMessage(o)])
         ELSE Raise(o.exc)
    ELSE Return([model_name |-> model_name,
                 total_params |-> o.params,
                 total_flops |-> o.ops,
                 total_macs |-> (o.ops + 1) \div 2,
                 flops_by_operator |-> [conv |-> o.ops],
                 flops_by_module |-> [root |-> o.ops]])

\* the error record keeps a parameter count
model_analyzer_analyze_model_keepparams(model_name, o) ==
    IF o.fails # "none"
    THEN IF o.exc = "Exception"
         THEN Return([model_name |-> model_name, total_params |-> o.params,
                      error |-> ErrorMessage(o)])
         ELSE Raise(o.exc)
    ELSE Return([model_name |-> model_name,
                 total_params |-> o.params,
                 total_flops |-> o.ops * 2,
                 total_macs |-> o.ops,
                 gflops |-> Float(o.ops * 2, Billion),
                 gmacs |-> Float(o.ops, Billion)])

(* src/src/main.py: analyze_model, fvcore back-end *)

main_analyze_model(model_name, o) ==
    IF o.fails # "none"
    THEN IF o.exc = "Exception"
         THEN Return([model_name |-> model_name, error |-> ErrorMessage(o)])
         ELSE Raise(o.exc)
    ELSE LET total_params == o.params
             total_flops == o.ops
             total_macs == total_flops \div 2
         IN  Return([model_name |-> model_name,
                     total_params |-> total_params,
                     total_flops |-> total_flops,
                     total_macs |-> total_macs,
                     flops_by_operator |-> [conv |-> total_flops],
                     flops_by_module |-> [root |-> total_flops]])

(* src/src/model_analyzer.py: analyze_model, thop back-end *)

model_analyzer_analyze_model(model_name, o) ==
    IF o.fails # "none"
    THEN IF o.exc = "Exception"
         THEN Return([model_name |-> model_name, error |-> ErrorMessage(o)])
         ELSE Raise(o.exc)
    ELSE LET macs == o.ops
             params == o.params
             flops == macs * 2
             gflops == Float(flops, Billion)
             gmacs == Float(macs, Billion)
         IN  Return([model_name |-> model_name,
                     total_params |-> params,
                     total_flops |-> flops,
                     total_macs |-> macs,
                     gflops |-> gflops,
                     gmacs |-> gmacs])

\* the analyze_model of the script that runs
analyze_model(s, model_name, o) ==
    IF s = "main" THEN main_analyze_model(model_name, o)
    ELSE model_analyzer_analyze_model(model_name, o)

----------------------------------------------------------------------------
(* main() of the analysis scripts (the two are the same text) *)

\* a variant of main_Load without the early return on an empty list
main_Load_noreturn ==
    /\ pc = "start"
    /\ model_names' = dict_get(config, "models", <<>>)
    /\ IF model_names' = <<>>
       THEN pc' = "save"
       ELSE pc' = "loop"
    /\ results' = <<>>
    /\ UNCHANGED <<script, config, outcomes, output_file, writes>>
    /\ UNCHANGED rvars

\* parse the arguments, load the configuration, read the models list
main_Load ==
    /\ pc = "start"
    /\ model_names' = dict_get(config, "models", <<>>)
    /\ IF model_names' = <<>>
       THEN pc' = "done"
       ELSE pc' = "loop"
    /\ results' = <<>>
    /\ UNCHANGED <<script, config, outcomes, output_file, writes>>
    /\ UNCHANGED rvars

\* a variant of main_Analyze that inserts the result at the front of results
main_Analyze_prepend ==
    /\ pc = "loop"
    /\ \E o \in Outcomes(script) :
         LET model_name == model_names[Len(outcomes) + 1]
             result == analyze_model(script, model_name, o)
         IN  /\ outcomes' = Append(outcomes, o)
             /\ IF result.kind = "raise"
                THEN /\ pc' = "raised"
                     /\ results' = results
                ELSE /\ results' = <<result.value>> \o results
                     /\ pc' = IF Len(outcomes') = Len(model_names) THEN "save" ELSE "loop"
    /\ UNCHANGED <<script, config, model_names, output_file, writes>>
    /\ UNCHANGED rvars

\* a variant of main_Analyze that dumps the results after every model
main_Analyze_checkpoint ==
    /\ pc = "loop"
    /\ \E o \in Outcomes(script) :
         LET model_name == model_names[Len(outcomes) + 1]
             result == analyze_model(script, model_name, o)
         IN  /\ outcomes' = Append(outcomes, o)
             /\ IF result.kind = "raise"
                THEN /\ pc' = "raised"
                     /\ results' = results
                     /\ UNCHANGED <<output_file, writes>>
                ELSE /\ results' = Append(results, result.value)
                     /\ output_file' = [exists |-> TRUE, doc |-> json_dump(results')]
                     /\ writes' = writes + 1
                     /\ pc' = IF Len(outcomes') = Len(model_names) THEN "save" ELSE "loop"
    /\ UNCHANGED <<script, config, model_names>>
    /\ UNCHANGED rvars

\* a variant of main_Analyze that keeps one record per distinct model_name
main_Analyze_dedupe ==
    /\ pc = "loop"
    /\ \E o \in Outcomes(script) :
         LET model_name == model_names[Len(outcomes) + 1]
             result == analyze_model(script, model_name, o)
         IN  /\ outcomes' = Append(outcomes, o)
             /\ IF result.kind = "raise"
                THEN /\ pc' = "raised"
                     /\ results' = results
                ELSE /\ results' = IF \E k \in 1..Len(results) :
                                        results[k].model_name = model_name
                                   THEN results
                                   ELSE Append(results, result.value)
                     /\ pc' = IF Len(outcomes') = Len(model_names) THEN "save" ELSE "loop"
    /\ UNCHANGED <<script, config, model_names, output_file, writes>>
    /\ UNCHANGED rvars

\* one iteration of the loop over model_names
main_Analyze ==
    /\ pc = "loop"
    /\ \E o \in Outcomes(script) :
         LET model_name == model_names[Len(outcomes) + 1]
             result == analyze_model(script, model_name, o)
         IN  /\ outcomes' = Append(outcomes, o)
             /\ IF result.kind = "raise"
                THEN /\ pc' = "raised"
                     /\ results' = results
                ELSE /\ results' = Append(results, result.value)
                     /\ pc' = IF Len(outcomes') = Len(model_names) THEN "save" ELSE "loop"
    /\ UNCHANGED <<script, config, model_names, output_file, writes>>
    /\ UNCHANGED rvars

\* open the output path for writing and dump the results
main_Save ==
    /\ pc = "save"
    /\ output_file' = [exists |-> TRUE, doc |-> json_dump(results)]
    /\ writes' = writes + 1
    /\ pc' = "done"
    /\ UNCHANGED <<script, config, model_names, results, outcomes>>
    /\ UNCHANGED rvars

----------------------------------------------------------------------------

(* src/rec/plot_model_analysis.py *)

\* a variant of valid_models that keeps every record
valid_models_nofilter(d) == d

\* the list comprehension [model for model in data if 'error' not in model]
RECURSIVE valid_models(_)
valid_models(d) ==
    IF Len(d) = 0 THEN <<>>
    ELSE (IF "error" \notin DOMAIN Head(d) THEN <<Head(d)>> ELSE <<>>)
         \o valid_models(Tail(d))

load_model_analysis(file) ==
    IF ~file.exists THEN Raise("FileNotFoundError")
    ELSE Return(valid_models(json_load(file.doc)))

\* f'{value:.2f}': the value in hundredths, rounded
Format2f(x) == (x.num + x.den \div 200) \div (x.den \div 100)

\* val / 1_000_000
ToMillions(val) == Float(val, Million)

\* one bar per model: its x label, its height and the text above it
create_bar_plot(ms, metric_name) ==
    IF \E k \in 1..Len(ms) : {"model_name", metric_name} \ DOMAIN ms[k] # {}
    THEN Raise("KeyError")
    ELSE Return([k \in 1..Len(ms) |->
            LET val == ms[k][metric_name]
                metric_value == IF metric_name = "total_params" THEN ToMillions(val) ELSE val
            IN  [label |-> ms[k]["model_name"],
                 height |-> metric_value,
                 text |-> Format2f(metric_value)]])

\* one row per model: name, parameters in millions, GFLOPs
create_table_image(ms) ==
    IF \E k \in 1..Len(ms) : {"model_name", "total_params", "gflops"} \ DOMAIN ms[k] # {}
    THEN Raise("KeyError")
    ELSE Return([k \in 1..Len(ms) |->
            <<ms[k]["model_name"],
              Format2f(ToMillions(ms[k]["total_params"])),
              Format2f(ms[k]["gflops"])>>])

ImageFiles == {"model_analysis_grid.png", "model_parameters.png",
               "model_gflops.png", "model_table.png"}

\* a variant of plot_main_Load without the early return
plot_main_Load_noreturn ==
    /\ rpc = "idle"
    /\ LET r == load_model_analysis(output_file)
       IN  IF r.kind = "raise"
           THEN /\ rpc' = "raised"
                /\ rerror' = r.value
                /\ UNCHANGED <<data, models>>
           ELSE /\ data' = json_load(output_file.doc)
                /\ models' = r.value
                /\ rpc' = "params_plot"
                /\ rerror' = rerror
    /\ UNCHANGED <<params_plot, gflops_plot, table_image, images>>
    /\ UNCHANGED avars

\* load the report, return early when it has no valid model
plot_main_Load ==
    /\ rpc = "idle"
    /\ LET r == load_model_analysis(output_file)
       IN  IF r.kind = "raise"
           THEN /\ rpc' = "raised"
                /\ rerror' = r.value
                /\ UNCHANGED <<data, models>>
           ELSE /\ data' = json_load(output_file.doc)
                /\ models' = r.value
                /\ rpc' = IF Len(r.value) = 0 THEN "done" ELSE "params_plot"
                /\ rerror' = rerror
    /\ UNCHANGED <<params_plot, gflops_plot, table_image, images>>
    /\ UNCHANGED avars

plot_main_ParamsPlot ==
    /\ rpc = "params_plot"
    /\ LET r == create_bar_plot(models, "total_params")
       IN  IF r.kind = "raise"
           THEN rpc' = "raised" /\ rerror' = r.value /\ params_plot' = params_plot
           ELSE rpc' = "gflops_plot" /\ rerror' = rerror /\ params_plot' = r.value
    /\ UNCHANGED <<data, models, gflops_plot, table_image, images>>
    /\ UNCHANGED avars

plot_main_GflopsPlot ==
    /\ rpc = "gflops_plot"
    /\ LET r == create_bar_plot(models, "gflops")
       IN  IF r.kind = "raise"
           THEN rpc' = "raised" /\ rerror' = r.value /\ gflops_plot' = gflops_plot
           ELSE rpc' = "table" /\ rerror' = rerror /\ gflops_plot' = r.value
    /\ UNCHANGED <<data, models, params_plot, table_image, images>>
    /\ UNCHANGED avars

plot_main_Table ==
    /\ rpc = "table"
    /\ LET r == create_table_image(models)
       IN  IF r.kind = "raise"
           THEN rpc' = "raised" /\ rerror' = r.value /\ table_image' = table_image
           ELSE rpc' = "save" /\ rerror' = rerror /\ table_image' = r.value
    /\ UNCHANGED <<data, models, params_plot, gflops_plot, images>>
    /\ UNCHANGED avars

\* resize, compose the grid, save the grid and the three images
plot_main_Save ==
    /\ rpc = "save"
    /\ images' = ImageFiles
    /\ rpc' = "done"
    /\ UNCHANGED <<rerror, data, models, params_plot, gflops_plot, table_image>>
    /\ UNCHANGED avars

----------------------------------------------------------------------------

NoModelsKey == [k \in {} |-> <<>>]

Configs == {NoModelsKey} \cup {[k \in {"models"} |-> s] : s \in SeqsUpTo(ModelIds, MaxModels)}

Init ==
    /\ script \in Scripts
    /\ config \in Configs
    /\ pc = "start"
    /\ model_names = <<>>
    /\ results = <<>>
    /\ outcomes = <<>>
    /\ output_file \in {[exists |-> FALSE, doc |-> <<>>], [exists |-> TRUE, doc |-> <<>>]}
    /\ writes = 0
    /\ rpc = "idle"
    /\ rerror = ""
    /\ data = <<>>
    /\ models = <<>>
    /\ params_plot = <<>>
    /\ gflops_plot = <<>>
    /\ table_image = <<>>
    /\ images = {}

Next ==
    \/ main_Load
    \/ main_Analyze
    \/ main_Save
    \/ plot_main_Load
    \/ plot_main_ParamsPlot
    \/ plot_main_GflopsPlot
    \/ plot_main_Table
    \/ plot_main_Save

Spec == Init /\ [][Next]_vars

----------------------------------------------------------------------------
(* Properties *)

\* the identifiers the configuration lists
ConfiguredIds == IF "models" \in DOMAIN config THEN config["models"] ELSE <<>>

\* the report as read back from the file
Report == json_load(output_file.doc)

NumericFields(s) ==
    IF s = "main" THEN {"total_params", "total_flops", "total_macs"}
    ELSE {"total_params", "total_flops", "total_macs", "gflops", "gmacs"}

AnyNumericField == {"total_params", "total_flops", "total_macs", "gflops", "gmacs"}

IsErrorRecord(r) == "error" \in DOMAIN r /\ DOMAIN r \cap AnyNumericField = {}

IsMetricRecord(r, s) ==
    /\ "error" \notin DOMAIN r
    /\ NumericFields(s) \subseteq DOMAIN r
    /\ r["total_params"] >= 0 /\ r["total_flops"] >= 0 /\ r["total_macs"] >= 0
    /\ "gflops" \in DOMAIN r => r["gflops"].num >= 0 /\ r["gflops"].den > 0
    /\ "gmacs" \in DOMAIN r => r["gmacs"].num >= 0 /\ r["gmacs"].den > 0

\* C1: a finished run over N >= 1 configured identifiers has written a report of
\* exactly N records, and record i carries the i-th configured identifier
C1_ReportFollowsConfiguration ==
    (pc = "done" /\ Len(ConfiguredIds) >= 1) =>
        /\ writes = 1 /\ output_file.exists
        /\ Len(Report) = Len(ConfiguredIds)
        /\ \A i \in 1..Len(ConfiguredIds) : Report[i]["model_name"] = ConfiguredIds[i]

C1_Witness ==
    /\ pc = "done" /\ Len(ConfiguredIds) = 2
    /\ ConfiguredIds[1] # ConfiguredIds[2]
    /\ "error" \in DOMAIN Report[1] /\ "error" \notin DOMAIN Report[2]

\* C2: every record analyze_model returned, and every record of the written report,
\* is either an error record without numeric fields or a record without error whose
\* numeric fields are all present and non-negative
C2_ErrorXorMetrics ==
    /\ \A k \in 1..Len(results) :
         IsErrorRecord(results[k]) # IsMetricRecord(results[k], script)
    /\ \A k \in 1..Len(Report) :
         IsErrorRecord(Report[k]) # IsMetricRecord(Report[k], script)

C2_Witness ==
    /\ script = "model_analyzer" /\ writes = 1 /\ Len(Report) = 2
    /\ IsErrorRecord(Report[1]) /\ IsMetricRecord(Report[2], script)

\* C3: a library failure during one model's analysis yields the record
\* {model_name, error} in that model's slot, the run goes on with the next
\* identifier, and a finished run has written the report of all N slots
C3_FailureContained ==
    /\ \A k \in 1..Len(outcomes) :
         (outcomes[k].fails # "none" /\ outcomes[k].exc = "Exception") =>
            /\ k <= Len(results)
            /\ DOMAIN results[k] = {"model_name", "error"}
            /\ results[k]["model_name"] = ConfiguredIds[k]
            /\ k < Len(ConfiguredIds) /\ Len(outcomes) = k => pc = "loop"
            /\ k = Len(ConfiguredIds) => pc \in {"save", "done"}
    /\ pc = "raised" => outcomes[Len(outcomes)].exc = "KeyboardInterrupt"
    /\ (pc = "done" /\ Len(ConfiguredIds) >= 1) =>
         /\ writes = 1 /\ Len(outcomes) = Len(ConfiguredIds)
         /\ Len(Report) = Len(ConfiguredIds)

C3_Witness ==
    /\ pc = "done" /\ writes = 1 /\ Len(ConfiguredIds) = 2
    /\ outcomes[1].fails = "create_model" /\ outcomes[1].exc = "Exception"
    /\ outcomes[2].fails = "none"
    /\ DOMAIN Report[1] = {"model_name", "error"}
    /\ "error" \notin DOMAIN Report[2]

\* C4: with an empty models list (key absent or empty list) main analyses no
\* model, never opens the report for writing, and ends normally
C4_EmptyListWritesNothing ==
    (pc # "start" /\ Len(ConfiguredIds) = 0) =>
        /\ pc = "done"
        /\ writes = 0
        /\ outcomes = <<>> /\ results = <<>>
        /\ output_file.doc = <<>>

C4_Witness == pc = "done" /\ "models" \notin DOMAIN config /\ writes = 0

\* C5: when the loaded report has no non-error record the renderer creates no
\* plot, writes no image file and ends normally
C5_NoValidModelsNoImages ==
    (/\ rpc # "idle" /\ rerror # "FileNotFoundError"
     /\ \A k \in 1..Len(data) : "error" \in DOMAIN data[k]) =>
        /\ rpc = "done" /\ rerror = ""
        /\ images = {}
        /\ params_plot = <<>> /\ gflops_plot = <<>> /\ table_image = <<>>

C5_Witness ==
    /\ rpc = "done" /\ Len(data) = 2
    /\ \A k \in 1..Len(data) : "error" \in DOMAIN data[k]

\* the model_name of each record, in order
Names(rs) == [k \in 1..Len(rs) |-> rs[k]["model_name"]]

NonErrorRecords == SelectSeq(data, LAMBDA r : "error" \notin DOMAIN r)

\* C6: the renderer's models are the non-error records of the report in report
\* order, and every chart and table it creates has one bar or row per such
\* record, in that order, labelled with the record's model_name
C6_PlotsExactlyValidRecords ==
    (rpc # "idle" /\ rerror # "FileNotFoundError") =>
        /\ Names(models) = Names(NonErrorRecords)
        /\ \A k \in 1..Len(models) : "error" \notin DOMAIN models[k]
        /\ Len(params_plot) > 0 =>
             [k \in 1..Len(params_plot) |-> params_plot[k].label] = Names(NonErrorRecords)
        /\ Len(gflops_plot) > 0 =>
             [k \in 1..Len(gflops_plot) |-> gflops_plot[k].label] = Names(NonErrorRecords)
        /\ Len(table_image) > 0 =>
             [k \in 1..Len(table_image) |-> table_image[k][1]] = Names(NonErrorRecords)
        /\ images # {} =>
             Len(params_plot) > 0 /\ Len(gflops_plot) > 0 /\ Len(table_image) > 0

C6_Witness ==
    /\ rpc = "done" /\ images = ImageFiles
    /\ Len(data) = 2 /\ "error" \in DOMAIN data[1]
    /\ Len(params_plot) = 1 /\ params_plot[1].label = data[2]["model_name"]
    /\ Len(table_image) = 1

\* C7: rendering a report written by either analysis script never fails on a
\* missing key
C7_RendersEitherScript == ~(rpc = "raised" /\ rerror = "KeyError")

\* C8: the report is opened for writing at most once, only by a run that has
\* analysed every configured identifier, and exactly once by a finished run over
\* a non-empty list; until then the file holds no record
C8_WrittenOnceAtEnd ==
    /\ writes <= 1
    /\ (pc = "done" /\ Len(ConfiguredIds) >= 1) => writes = 1
    /\ pc # "done" => writes = 0 /\ Len(output_file.doc) = 0
    /\ writes = 1 =>
         /\ pc = "done"
         /\ Len(results) = Len(ConfiguredIds)
         /\ Report = results

C8_Witness ==
    /\ pc = "raised" /\ Len(results) >= 1
    /\ writes = 0 /\ Len(output_file.doc) = 0

\* C9 as stated: no two records of a written report carry the same model_name
C9_ModelNameUnique ==
    (pc = "done" /\ writes = 1) =>
        \A i, j \in 1..Len(Report) :
            i # j => Report[i]["model_name"] # Report[j]["model_name"]

\* C9 amended: two records of a written report carry the same model_name exactly
\* when their configured identifiers are equal
C9_UniqueIffConfiguredUnique ==
    (pc = "done" /\ writes = 1) =>
        /\ Len(Report) = Len(ConfiguredIds)
        /\ \A i, j \in 1..Len(Report) :
             (Report[i]["model_name"] = Report[j]["model_name"])
                <=> (ConfiguredIds[i] = ConfiguredIds[j])

C9_Witness ==
    /\ pc = "done" /\ writes = 1 /\ Len(Report) = 2
    /\ ConfiguredIds[1] = ConfiguredIds[2]
    /\ Report[1]["model_name"] = Report[2]["model_name"]

\* C10: in every successful record 2 * total_macs <= total_flops <= 2 * total_macs + 1;
\* main.py reports the profiler's count as total_flops, model_analyzer.py reports
\* it as total_macs with total_flops = 2 * total_macs
C10_MacsHalfOfFlops ==
    \A k \in 1..Len(results) :
        "error" \notin DOMAIN results[k] =>
            LET r == results[k]
            IN  /\ 2 * r["total_macs"] <= r["total_flops"]
                /\ r["total_flops"] <= 2 * r["total_macs"] + 1
                /\ script = "main" => r["total_flops"] = outcomes[k].ops
                /\ script = "model_analyzer" =>
                     /\ r["total_macs"] = outcomes[k].ops
                     /\ r["total_flops"] = 2 * r["total_macs"]

C10_Witness ==
    /\ script = "main" /\ Len(results) = 2
    /\ "error" \notin DOMAIN results[1] /\ "error" \notin DOMAIN results[2]
    /\ results[1]["total_flops"] = 2 * Billion /\ results[1]["total_macs"] = Billion
    /\ results[2]["total_flops"] = 1 /\ results[2]["total_macs"] = 0

====
